---- MODULE Spec2Model ----
(***************************************************************************)
(* Model of the WGUPS package routing program (src/main.py): the loading   *)
(* policy Truck.load_truck, the nearest-destination traversal              *)
(* Truck.find_shortest_distance / Truck.deliver_package /                  *)
(* Truck.return_to_hub, the dispatch loop route_packages and the status    *)
(* query of the interactive loop.                                          *)
(*                                                                         *)
(* Times are seconds since midnight of the day of the run; distances are   *)
(* whole miles.  A leg of d miles at 18 mph lasts d * 3600 / 18 seconds.   *)
(***************************************************************************)
EXTENDS Integers, Sequences, FiniteSets, TLC

\* datetime.time(h, m, 0) as seconds since midnight
T(h, m) == h * 3600 + m * 60

\* ------------------------------------------------------------------------
\* Program constants
\* ------------------------------------------------------------------------
\* Truck.rate (miles per hour)
rate == 18
\* the capacity tested in load_truck
Capacity == 16
\* the initial min_distance of find_shortest_distance
min_distance == 100
\* datetime.time(23, 59, 59), the end-of-day deadline of load_package_data
EndOfDay == 23 * 3600 + 59 * 60 + 59
\* truck_list = [truck_1, truck_2]; the list holds the truck ids in order
truck_list == <<1, 2>>
\* start of day of truck_1 and truck_2
truck_start == <<T(8, 0), T(9, 5)>>
\* class Statuses
UNAVAILABLE == "Package Unavailable"
DEPOT == "In Depot"
EN_ROUTE == "En Route"
DELIVERED == "Delivered"

\* ------------------------------------------------------------------------
\* Bounds of the inputs
\* ------------------------------------------------------------------------
\* number of freely chosen package rows
NumVar == 2
\* largest number of identical filler rows in the capacity inputs
FillMax == 15
\* largest number of rows of the location file in the address inputs
MaxLocs == 2
\* longest address, in letters, in the address inputs
MaxAddr == 2

\* addresses are sequences of letters
Letters == {"a", "b"}
Addresses == UNION {[1..k -> Letters] : k \in 0..MaxAddr}

\* distance tables, row l+1 / column m+1 = distance from location l to m
SpecTable == << <<0, 5, 3>>, <<5, 0, 4>>, <<3, 4, 0>> >>
FarTable == << <<0, 100, 3>>, <<100, 0, 100>>, <<3, 100, 0>> >>

\* the columns of a package row that decide routing
VarProfiles ==
  {r \in [loc_id : {1, 2}, group : {0, 7}, req_truck : {0, 1, 2},
          time_available : {T(8, 0), T(9, 5)},
          deadline : {T(10, 30), EndOfDay}] :
      (r.group # 0 \/ r.req_truck # 0) => r.deadline = EndOfDay}
FarProfiles == {r \in VarProfiles : r.time_available = T(8, 0)}
FullProfiles == {r \in FarProfiles : r.loc_id = 2}
\* rows that no active truck may carry (truck 3 is not in truck_list) or
\* that become available after every truck's day
StuckProfiles ==
  [loc_id : {2}, group : {0, 7}, req_truck : {0, 3},
   time_available : {T(8, 0), T(23, 0)}, deadline : {EndOfDay}]
FillerRow(pri) ==
  [loc_id |-> 1, group |-> 0, req_truck |-> 0, time_available |-> T(8, 0),
   deadline |-> IF pri THEN T(10, 30) ELSE EndOfDay]

VARIABLES
  locations,               \* the distance table
  my_hash_packages,        \* package id -> package record
  group_count_dictionary,  \* group id -> number of packages of the group
  priority_packages,       \* pending pool, sequence of ids
  non_priority_packages,   \* pending pool, sequence of ids
  trucks,                  \* truck id -> [packages, distance_traveled, location_id, truck_time]
  pc,                      \* position in route_packages / the interactive loop
  cur,                     \* index in truck_list of the truck being processed
  idx,                     \* index of the load_truck loop in its pool
  delivered,               \* ids for which deliver_package has run
  trips,                   \* truck id -> number of finished cycles that delivered something
  load_trip,               \* package id -> <<truck, trip>> of its last load_package
  deliver_trip,            \* package id -> <<truck, trip>> of its deliver_package
  shown,                   \* last status printed by the query loop
  addresses,               \* location.address of each row of locations
  p_address,               \* the address column of the package row read
  p_loc_id,                \* the location id resolved for that row
  loc_k                    \* position of `for location in locations`

vars == <<locations, my_hash_packages, group_count_dictionary,
          priority_packages, non_priority_packages, trucks, pc, cur, idx,
          delivered, trips, load_trip, deliver_trip, shown,
          addresses, p_address, p_loc_id, loc_k>>

\* the variables of the address resolution of load_package_data
resolve_vars == <<addresses, p_address, p_loc_id, loc_k>>

Ids == DOMAIN my_hash_packages
TruckIds == {truck_list[k] : k \in 1..Len(truck_list)}
NoTrip == <<0, 0>>

\* ------------------------------------------------------------------------
\* Helpers
\* ------------------------------------------------------------------------
\* Python list indexing seq[i], a negative i counting from the end
PyIndex(seq, i) == IF i < 0 THEN seq[Len(seq) + i + 1] ELSE seq[i + 1]

\* float(locations[from].distances[to])
Distance(from, to) == PyIndex(PyIndex(locations, from), to)

\* variant: every leg takes a minute more than the drive
time_traveled_with_stop(distance) == (distance * 3600) \div rate + 60

\* datetime.timedelta(seconds=float(distance / self.rate) * 3600)
time_traveled(distance) == (distance * 3600) \div rate

InSeq(x, seq) == \E k \in 1..Len(seq) : seq[k] = x

\* list.remove(x): drops the first occurrence of x
RECURSIVE ListRemove(_, _)
ListRemove(seq, x) ==
  IF seq = <<>> THEN <<>>
  ELSE IF Head(seq) = x THEN Tail(seq)
  ELSE <<Head(seq)>> \o ListRemove(Tail(seq), x)

\* ------------------------------------------------------------------------
\* load_package_data
\* ------------------------------------------------------------------------
\* the test that sends a package to priority_packages
IsPriority(p) == p.deadline < EndOfDay \/ p.req_truck # 0 \/ p.group # 0

\* group_count_dictionary after all rows are read
GroupCount(rows) ==
  [g \in {rows[k].group : k \in 1..Len(rows)} \ {0} |->
     Cardinality({k \in 1..Len(rows) : rows[k].group = g})]

\* the ids appended to a pool, in row order
RECURSIVE PoolOf(_, _, _)
PoolOf(rows, k, pri) ==
  IF k > Len(rows) THEN <<>>
  ELSE (IF IsPriority(rows[k]) = pri THEN <<k>> ELSE <<>>)
       \o PoolOf(rows, k + 1, pri)

\* the state after load_location_data, load_package_data and the creation
\* of the trucks, for the package rows `rows` (package id = row number)
Setup(table, rows) ==
  /\ locations = table
  /\ my_hash_packages =
       [id \in 1..Len(rows) |->
          [id |-> id, loc_id |-> rows[id].loc_id, group |-> rows[id].group,
           req_truck |-> rows[id].req_truck,
           time_available |-> rows[id].time_available,
           time_pickup |-> T(0, 0), time_delivered |-> T(0, 0),
           deadline |-> rows[id].deadline]]
  /\ group_count_dictionary = GroupCount(rows)
  /\ priority_packages = PoolOf(rows, 1, TRUE)
  /\ non_priority_packages = PoolOf(rows, 1, FALSE)
  /\ trucks = [t \in TruckIds |->
                 [packages |-> <<>>, distance_traveled |-> 0,
                  location_id |-> 0, truck_time |-> truck_start[t]]]
  /\ pc = "while"
  /\ cur = 1
  /\ idx = 1
  /\ delivered = {}
  /\ trips = [t \in TruckIds |-> 0]
  /\ load_trip = [id \in 1..Len(rows) |-> NoTrip]
  /\ deliver_trip = [id \in 1..Len(rows) |-> NoTrip]
  /\ shown = [id |-> 0, time |-> 0, label |-> "none"]
  /\ addresses = <<>>
  /\ p_address = <<>>
  /\ p_loc_id = -1
  /\ loc_k = 1

Fillers(n, pri) == [k \in 1..n |-> FillerRow(pri)]

\* small inputs: up to NumVar free rows
InitSmall ==
  \E n \in 1..NumVar :
    \E rows \in [1..n -> VarProfiles] : Setup(SpecTable, rows)

\* inputs with location 1 a hundred miles from the others
InitFar ==
  \E n \in 1..NumVar :
    \E rows \in [1..n -> FarProfiles] : Setup(FarTable, rows)

\* capacity inputs: FillMax-1 or FillMax filler rows before or after NumVar
\* free rows
InitFull ==
  \E fill \in {FillMax - 1, FillMax}, pri \in BOOLEAN, first \in BOOLEAN :
    \E rows \in [1..NumVar -> FullProfiles] :
      Setup(SpecTable,
            IF first THEN Fillers(fill, pri) \o rows
            ELSE rows \o Fillers(fill, pri))

\* priority rows that name a truck, available when that truck starts
TruckBoundProfiles ==
  {r \in [loc_id : {2}, group : {0}, req_truck : {1, 2},
          time_available : {T(8, 0), T(9, 5)}, deadline : {T(10, 30)}] :
      r.time_available = truck_start[r.req_truck]}

\* capacity inputs whose free rows are priority rows bound to a truck, so
\* that a truck needs a second pass for what did not fit in its first
InitBound ==
  \E fill \in {FillMax - 1, FillMax}, first \in BOOLEAN :
    \E rows \in [1..NumVar -> TruckBoundProfiles] :
      Setup(SpecTable,
            IF first THEN Fillers(fill, TRUE) \o rows
            ELSE rows \o Fillers(fill, TRUE))

\* inputs with rows that no active truck is allowed or in time to load
InitStuck ==
  \E n \in 1..NumVar :
    \E rows \in [1..n -> StuckProfiles] : Setup(SpecTable, rows)

Init == InitSmall \/ InitFar \/ InitFull \/ InitStuck


\* ------------------------------------------------------------------------
\* load_package_data: the location id of a package row
\* ------------------------------------------------------------------------
\* Python `needle in hay` on strings
Contains(hay, needle) ==
  \E i \in 0..(Len(hay) - Len(needle)) :
    SubSeq(hay, i + 1, i + Len(needle)) = needle

\* variant: the operands of `in` are swapped
MatchesSwapped(package_address, location_address) ==
  Contains(package_address, location_address)

\* `p_address in location.address`
Matches(package_address, location_address) ==
  Contains(location_address, package_address)

\* location.loc_id of row k of the location file (ids are dense from 0)
LocIdOfRow(k) == k - 1

\* a package row is about to be resolved against 1..MaxLocs locations
InitResolve ==
  /\ \E n \in 1..MaxLocs : addresses \in [1..n -> Addresses]
  /\ p_address \in Addresses
  /\ p_loc_id = -1
  /\ loc_k = 1
  /\ pc = "resolve"
  /\ locations = SpecTable
  /\ my_hash_packages = <<>>
  /\ group_count_dictionary = <<>>
  /\ priority_packages = <<>>
  /\ non_priority_packages = <<>>
  /\ trucks = [t \in TruckIds |->
                 [packages |-> <<>>, distance_traveled |-> 0,
                  location_id |-> 0, truck_time |-> truck_start[t]]]
  /\ cur = 1
  /\ idx = 1
  /\ delivered = {}
  /\ trips = [t \in TruckIds |-> 0]
  /\ load_trip = <<>>
  /\ deliver_trip = <<>>
  /\ shown = [id |-> 0, time |-> 0, label |-> "none"]

\* one iteration of `for location in locations`
ResolveStep ==
  /\ pc = "resolve"
  /\ loc_k <= Len(addresses)
  /\ p_loc_id' = IF Matches(p_address, addresses[loc_k])
                 THEN LocIdOfRow(loc_k) ELSE p_loc_id
  /\ loc_k' = loc_k + 1
  /\ pc' = IF loc_k = Len(addresses) THEN "resolved" ELSE "resolve"
  /\ UNCHANGED <<addresses, p_address, locations, my_hash_packages,
                 group_count_dictionary, priority_packages,
                 non_priority_packages, trucks, cur, idx, delivered, trips,
                 load_trip, deliver_trip, shown>>

NextResolve == ResolveStep

SpecResolve == InitResolve /\ [][NextResolve]_vars

\* ------------------------------------------------------------------------
\* Truck.load_truck
\* ------------------------------------------------------------------------
\* variant: the break tests for more than Capacity packages
FullOffByOne(packages) == Len(packages) > Capacity

\* the capacity break of both loops
Full(packages) == Len(packages) = Capacity

\* variant: a truck takes only the packages that name it
EligibleOwnTruckOnly(package, t) ==
  /\ package.req_truck = t
  /\ package.time_available <= trucks[t].truck_time

\* a priority candidate may go on truck t
Eligible(package, t) ==
  /\ package.req_truck = t \/ package.req_truck = 0
  /\ package.time_available <= trucks[t].truck_time

\* variant: the admission test forgets the packages already aboard
GroupFitsIgnoringLoad(packages, group) ==
  group_count_dictionary[group] <= Capacity

\* the admission test of a group
GroupFits(packages, group) ==
  Len(packages) + group_count_dictionary[group] <= Capacity

\* variant: a group member is loaded alone
GroupLoadOnlySelf(pool, p_id) == <<p_id>>

\* the ids the inner loop over the priority pool loads for the group of p_id
GroupLoad(pool, p_id) ==
  SelectSeq(pool, LAMBDA pack_id :
    my_hash_packages[pack_id].group = my_hash_packages[p_id].group)

\* what one iteration of the priority loop loads on truck t
PriorityLoad(t, p_id) ==
  LET package == my_hash_packages[p_id] IN
  IF InSeq(p_id, trucks[t].packages) THEN <<>>
  ELSE IF ~Eligible(package, t) THEN <<>>
  ELSE IF package.group = 0 THEN <<p_id>>
  ELSE IF GroupFits(trucks[t].packages, package.group)
       THEN GroupLoad(priority_packages, p_id)
  ELSE <<>>

\* what one iteration of the non-priority loop loads on truck t
NonPriorityLoad(t, p_id) ==
  IF my_hash_packages[p_id].time_available <= trucks[t].truck_time
  THEN <<p_id>> ELSE <<>>

\* variant: the package goes aboard without a pickup stamp
load_package_unstamped(t, loaded) ==
  /\ my_hash_packages' = my_hash_packages
  /\ trucks' = [trucks EXCEPT ![t].packages = @ \o loaded]
  /\ load_trip' = [id \in Ids |->
                     IF InSeq(id, loaded) THEN <<t, trips[t]>> ELSE load_trip[id]]

\* Truck.load_package for each id of `loaded`, in order
load_package(t, loaded) ==
  /\ my_hash_packages' =
       [id \in Ids |->
          IF InSeq(id, loaded)
          THEN [my_hash_packages[id] EXCEPT !.time_pickup = trucks[t].truck_time]
          ELSE my_hash_packages[id]]
  /\ trucks' = [trucks EXCEPT ![t].packages = @ \o loaded]
  /\ load_trip' = [id \in Ids |->
                     IF InSeq(id, loaded) THEN <<t, trips[t]>> ELSE load_trip[id]]

\* one iteration of `for p_id in priority_packages_list`, or its end
LoadPriorityStep ==
  LET t == truck_list[cur] IN
  /\ pc = "load_pri"
  /\ IF idx > Len(priority_packages) \/ Full(trucks[t].packages)
     THEN /\ pc' = "load_non"
          /\ idx' = 1
          /\ UNCHANGED <<my_hash_packages, trucks, load_trip>>
     ELSE /\ load_package(t, PriorityLoad(t, priority_packages[idx]))
          /\ idx' = idx + 1
          /\ pc' = pc
  /\ UNCHANGED <<resolve_vars, locations, group_count_dictionary, priority_packages,
                 non_priority_packages, cur, delivered, trips, deliver_trip,
                 shown>>

\* one iteration of `for p_id in non_priority_packages_list`, or its end
LoadNonPriorityStep ==
  LET t == truck_list[cur] IN
  /\ pc = "load_non"
  /\ IF idx > Len(non_priority_packages) \/ Full(trucks[t].packages)
     THEN /\ pc' = "drain"
          /\ idx' = 1
          /\ UNCHANGED <<my_hash_packages, trucks, load_trip>>
     ELSE /\ load_package(t, NonPriorityLoad(t, non_priority_packages[idx]))
          /\ idx' = idx + 1
          /\ pc' = pc
  /\ UNCHANGED <<resolve_vars, locations, group_count_dictionary, priority_packages,
                 non_priority_packages, cur, delivered, trips, deliver_trip,
                 shown>>

\* ------------------------------------------------------------------------
\* Truck.find_shortest_distance
\* ------------------------------------------------------------------------
\* variant: a later package at the same distance replaces the earlier one
CloserOrEqual(package_distance, best) == package_distance <= best

\* the comparison that replaces the best candidate so far
Closer(package_distance, best) == package_distance < best

RECURSIVE ShortestFrom(_, _, _, _, _)
ShortestFrom(packages, k, location_id, package_id, best) ==
  IF k > Len(packages) THEN package_id
  ELSE LET package_distance ==
             Distance(location_id, my_hash_packages[packages[k]].loc_id)
       IN IF Closer(package_distance, best)
          THEN ShortestFrom(packages, k + 1, location_id, packages[k],
                            package_distance)
          ELSE ShortestFrom(packages, k + 1, location_id, package_id, best)

find_shortest_distance(t) ==
  ShortestFrom(trucks[t].packages, 1, trucks[t].location_id, -1, min_distance)

\* ------------------------------------------------------------------------
\* route_packages
\* ------------------------------------------------------------------------
\* variant: the outer while looks at the priority pool only
PriorityPending(priority, non_priority) == priority # <<>>

\* the condition of the outer while
PoolsPending(priority, non_priority) == priority # <<>> \/ non_priority # <<>>

\* variant: the drain loop stops with one package left
AboardMoreThanOne(packages) == Len(packages) > 1

\* the condition of `while truck.packages`
Aboard(packages) == packages # <<>>

\* variant: the delivered id stays in the priority pool
PriorityKept(deliver_package) == priority_packages

\* the pools after the removal of the package chosen for delivery
PriorityAfter(deliver_package) ==
  IF InSeq(deliver_package, priority_packages)
  THEN ListRemove(priority_packages, deliver_package)
  ELSE priority_packages

\* variant: the head of the non-priority pool is removed, whichever id is
\* delivered
NonPriorityPopFirst(deliver_package) ==
  IF InSeq(deliver_package, priority_packages) THEN non_priority_packages
  ELSE IF InSeq(deliver_package, non_priority_packages)
       THEN Tail(non_priority_packages)
  ELSE non_priority_packages

NonPriorityAfter(deliver_package) ==
  IF InSeq(deliver_package, priority_packages) THEN non_priority_packages
  ELSE IF InSeq(deliver_package, non_priority_packages)
       THEN ListRemove(non_priority_packages, deliver_package)
  ELSE non_priority_packages

\* variant: the leg is not added to distance_traveled
AfterLegOdometerKept(truck, package_location, package_id) ==
  LET distance == Distance(truck.location_id, package_location) IN
  [truck EXCEPT !.truck_time = @ + time_traveled(distance),
                !.location_id = package_location,
                !.packages = ListRemove(@, package_id)]

\* Truck.increment_time_and_distance followed by self.packages.remove
AfterLeg(truck, package_location, package_id) ==
  LET distance == Distance(truck.location_id, package_location) IN
  [truck EXCEPT !.truck_time = @ + time_traveled(distance),
                !.distance_traveled = @ + distance,
                !.location_id = package_location,
                !.packages = ListRemove(@, package_id)]

\* `while priority_packages or non_priority_packages` holds: the pass
\* starts with the first truck
LoopEnter ==
  /\ pc = "while"
  /\ PoolsPending(priority_packages, non_priority_packages)
  /\ pc' = "load_pri"
  /\ cur' = 1
  /\ idx' = 1
  /\ UNCHANGED <<resolve_vars, locations, my_hash_packages, group_count_dictionary,
                 priority_packages, non_priority_packages, trucks, delivered,
                 trips, load_trip, deliver_trip, shown>>

\* the while condition fails: route_packages returns
LoopExit ==
  /\ pc = "while"
  /\ ~PoolsPending(priority_packages, non_priority_packages)
  /\ pc' = "done"
  /\ UNCHANGED <<resolve_vars, locations, my_hash_packages, group_count_dictionary,
                 priority_packages, non_priority_packages, trucks, cur, idx,
                 delivered, trips, load_trip, deliver_trip, shown>>

\* one iteration of `while truck.packages`: choose, remove from the pool,
\* Truck.deliver_package
DeliverStep ==
  LET t == truck_list[cur]
      deliver_package == find_shortest_distance(t) IN
  /\ pc = "drain"
  /\ Aboard(trucks[t].packages)
  /\ deliver_package \in Ids
  /\ priority_packages' = PriorityAfter(deliver_package)
  /\ non_priority_packages' = NonPriorityAfter(deliver_package)
  /\ my_hash_packages' =
       [my_hash_packages EXCEPT
          ![deliver_package].time_delivered = trucks[t].truck_time]
  /\ trucks' = [trucks EXCEPT
                  ![t] = AfterLeg(@, my_hash_packages[deliver_package].loc_id,
                                  deliver_package)]
  /\ delivered' = delivered \cup {deliver_package}
  /\ deliver_trip' = [deliver_trip EXCEPT ![deliver_package] = <<t, trips[t]>>]
  /\ UNCHANGED <<resolve_vars, locations, group_count_dictionary, pc, cur, idx, trips,
                 load_trip, shown>>

\* find_shortest_distance returned -1: my_hash_packages.search(-1) is None
\* and deliver_package raises AttributeError, which ends the program
DeliverCrash ==
  LET t == truck_list[cur] IN
  /\ pc = "drain"
  /\ Aboard(trucks[t].packages)
  /\ find_shortest_distance(t) \notin Ids
  /\ pc' = "crashed"
  /\ UNCHANGED <<resolve_vars, locations, my_hash_packages, group_count_dictionary,
                 priority_packages, non_priority_packages, trucks, cur, idx,
                 delivered, trips, load_trip, deliver_trip, shown>>

\* Truck.return_to_hub, then the next truck of the pass or the while test
ReturnToHub ==
  LET t == truck_list[cur]
      distance == Distance(trucks[t].location_id, 0) IN
  /\ pc = "drain"
  /\ ~Aboard(trucks[t].packages)
  /\ trucks' = [trucks EXCEPT
                  ![t].truck_time = @ + time_traveled(distance),
                  ![t].distance_traveled = @ + distance,
                  ![t].location_id = 0]
  /\ trips' = [trips EXCEPT
                 ![t] = IF \E id \in Ids : deliver_trip[id] = <<t, trips[t]>>
                        THEN @ + 1 ELSE @]
  /\ IF cur < Len(truck_list)
     THEN /\ cur' = cur + 1
          /\ pc' = "load_pri"
     ELSE /\ cur' = 1
          /\ pc' = "while"
  /\ idx' = 1
  /\ UNCHANGED <<resolve_vars, locations, my_hash_packages, group_count_dictionary,
                 priority_packages, non_priority_packages, delivered,
                 load_trip, deliver_trip, shown>>

\* ------------------------------------------------------------------------
\* The status query of options 1 and 2
\* ------------------------------------------------------------------------
Status(user_time, package) ==
  IF user_time < package.time_available THEN UNAVAILABLE
  ELSE IF user_time < package.time_pickup THEN DEPOT
  ELSE IF user_time < package.time_delivered THEN EN_ROUTE
  ELSE DELIVERED

\* the times get_input_time can return
InputTimes == 0..EndOfDay

\* the query times tried for a package: each of its timestamps and the
\* second before it
QueryTimes(package) ==
  LET stamps == {package.time_available, package.time_pickup,
                 package.time_delivered}
  IN {x \in stamps \cup {s - 1 : s \in stamps} : x \in InputTimes}

NoStatus == [id |-> 0, time |-> 0, label |-> "none"]

\* option 1 or 2 at the menu: the status line of package id at user_time
Query ==
  /\ pc = "done"
  /\ \E id \in Ids :
       \E user_time \in QueryTimes(my_hash_packages[id]) :
         shown' = [id |-> id, time |-> user_time,
                   label |-> Status(user_time, my_hash_packages[id])]
  /\ pc' = "shown"
  /\ UNCHANGED <<resolve_vars, locations, my_hash_packages, group_count_dictionary,
                 priority_packages, non_priority_packages, trucks, cur,
                 idx, delivered, trips, load_trip, deliver_trip>>

\* the number of rows load_package_data returned
num_packages == Cardinality(Ids)

\* the exit test of the package id prompt of option 2
IdAccepted(user_package_id) ==
  ~(user_package_id < 1 \/ user_package_id > num_packages + 1)

\* the integers typed at the prompt; any other text raises ValueError and
\* is asked again
EnteredIds == -1..(num_packages + 2)

\* option 2 with an accepted id that my_hash_packages.search does not
\* find: package is None and package.time_available raises AttributeError
Option2NotFound ==
  /\ pc = "done"
  /\ \E user_package_id \in EnteredIds :
       /\ IdAccepted(user_package_id)
       /\ user_package_id \notin Ids
       /\ shown' = [id |-> user_package_id, time |-> 0, label |-> "none"]
  /\ pc' = "query_failed"
  /\ UNCHANGED <<resolve_vars, locations, my_hash_packages,
                 group_count_dictionary, priority_packages,
                 non_priority_packages, trucks, cur, idx, delivered, trips,
                 load_trip, deliver_trip>>

\* the interactive loop comes back to the menu
Menu ==
  /\ pc = "shown"
  /\ pc' = "done"
  /\ shown' = NoStatus
  /\ UNCHANGED <<resolve_vars, locations, my_hash_packages, group_count_dictionary,
                 priority_packages, non_priority_packages, trucks, cur,
                 idx, delivered, trips, load_trip, deliver_trip>>

Next ==
  \/ LoopEnter
  \/ LoopExit
  \/ LoadPriorityStep
  \/ LoadNonPriorityStep
  \/ DeliverStep
  \/ DeliverCrash
  \/ ReturnToHub
  \/ Query
  \/ Menu
  \/ Option2NotFound

Spec == Init /\ [][Next]_vars

\* route_packages runs in the one thread of the interpreter, which executes
\* the next statement of the loop whenever there is one; the menu waits for
\* the user and gets no fairness
Route ==
  \/ LoopEnter
  \/ LoopExit
  \/ LoadPriorityStep
  \/ LoadNonPriorityStep
  \/ DeliverStep
  \/ DeliverCrash
  \/ ReturnToHub

\* the inputs of the termination check: ungrouped rows for location 2, a
\* single row on the far table, and the truck-bound capacity inputs
LiveProfiles == {r \in VarProfiles : r.group = 0 /\ r.loc_id = 2}
InitLive ==
  \/ \E n \in 1..NumVar :
       \E rows \in [1..n -> LiveProfiles] : Setup(SpecTable, rows)
  \/ \E row \in {r \in FarProfiles : r.group = 0} : Setup(FarTable, <<row>>)
  \/ InitBound

SpecLive == InitLive /\ [][Next]_vars /\ WF_vars(Route)

TypeOK ==
  /\ pc \in {"while", "load_pri", "load_non", "drain", "done", "shown",
            "crashed", "query_failed",
            "resolve", "resolved"}
  /\ cur \in 1..Len(truck_list)


\* ------------------------------------------------------------------------
\* Vocabulary of the properties
\* ------------------------------------------------------------------------
Range(seq) == {seq[k] : k \in 1..Len(seq)}
NoDuplicates(seq) == Cardinality(Range(seq)) = Len(seq)
Pending == Range(priority_packages) \cup Range(non_priority_packages)
GroupIds == {my_hash_packages[id].group : id \in Ids} \ {0}
Members(g) == {id \in Ids : my_hash_packages[id].group = g}
\* the step is an iteration of `while truck.packages` that delivered
IsDelivery == delivered' # delivered
\* the step is a return_to_hub
IsReturn == pc = "drain" /\ pc' \in {"load_pri", "while"}

\* C1: in every reachable state each truck's manifest holds at most 16
\* package ids, group loads included.
C1_ManifestAtMost16 ==
  \A t \in TruckIds : Len(trucks[t].packages) <= 16

\* a truck is exactly full and a group is aboard
C1_Witness ==
  \E t \in TruckIds :
    /\ Len(trucks[t].packages) = 16
    /\ \E id \in Range(trucks[t].packages) : my_hash_packages[id].group # 0

\* C2: a package with a non-zero required truck is only ever aboard, and
\* delivered by, the truck of that id.
C2_AffinityRespected ==
  /\ \A t \in TruckIds : \A id \in Range(trucks[t].packages) :
       my_hash_packages[id].req_truck \in {0, t}
  /\ \A id \in delivered :
       my_hash_packages[id].req_truck \in {0, deliver_trip[id][1]}

\* C3: when route_packages has returned, the packages of a non-zero group
\* share one pickup timestamp and were loaded and delivered by one truck in
\* one load/deliver cycle.
C3_GroupsTravelTogether ==
  pc \in {"done", "shown"} =>
    \A g \in GroupIds : \A a \in Members(g), b \in Members(g) :
      /\ my_hash_packages[a].time_pickup = my_hash_packages[b].time_pickup
      /\ deliver_trip[a] = deliver_trip[b]
      /\ load_trip[a] = deliver_trip[a]

\* the run is over and a group of two or more was delivered
C3_Witness ==
  /\ pc = "done"
  /\ \E g \in GroupIds : Cardinality(Members(g)) >= 2 /\ Members(g) \subseteq delivered

\* C4: when route_packages has returned, every package has
\* delivered > pickup > available.
C4_StrictProgression ==
  pc \in {"done", "shown"} =>
    \A id \in Ids :
      /\ my_hash_packages[id].time_delivered > my_hash_packages[id].time_pickup
      /\ my_hash_packages[id].time_pickup > my_hash_packages[id].time_available

\* C5: a load step puts members of a non-zero group aboard only when the
\* manifest size before it plus the precomputed group size is at most 16,
\* and after every step each non-zero group has all of its pending members
\* aboard the loading truck or none of them.
C5_StepAdmits ==
  \A t \in TruckIds : \A g \in GroupIds :
    (\E id \in Members(g) :
        /\ id \notin Range(trucks[t].packages)
        /\ id \in Range(trucks'[t].packages))
      => Len(trucks[t].packages) + group_count_dictionary[g] <= 16
C5_AllOrNone ==
  \A t \in TruckIds : \A g \in GroupIds :
    LET aboard == Members(g) \cap Pending \cap Range(trucks[t].packages)
    IN aboard = {} \/ aboard = Members(g) \cap Pending
C5_GroupAdmissionAtomic == [][C5_StepAdmits /\ C5_AllOrNone']_vars

\* the priority loop has ended with one slot free and a pending group of
\* two was skipped whole
C5_Witness ==
  \E t \in TruckIds : \E g \in GroupIds :
    /\ pc = "load_non"
    /\ t = truck_list[cur]
    /\ Len(trucks[t].packages) = 15
    /\ Cardinality(Members(g) \cap Pending) = 2
    /\ Members(g) \cap Range(trucks[t].packages) = {}
    /\ \A id \in Members(g) : Eligible(my_hash_packages[id], t)

\* C6: every delivery step delivers an aboard package at minimum table
\* distance from the truck's location, the first such in manifest order.
C6_StepNearestFirst ==
  IsDelivery =>
    LET t == truck_list[cur]
        aboard == trucks[t].packages
        from == trucks[t].location_id
        d(k) == Distance(from, my_hash_packages[aboard[k]].loc_id)
    IN \E k \in 1..Len(aboard) :
         /\ delivered' = delivered \cup {aboard[k]}
         /\ trucks'[t].packages = ListRemove(aboard, aboard[k])
         /\ \A j \in 1..Len(aboard) : d(k) <= d(j)
         /\ \A j \in 1..(k - 1) : d(j) > d(k)
C6_NearestFirst == [][C6_StepNearestFirst]_vars

\* from the depot with destinations at 5 (loaded first) and 3, the truck
\* has driven 3 to location 2 and still carries the package for location 1
C6_Witness ==
  /\ locations = SpecTable
  /\ \E t \in TruckIds :
       /\ trucks[t].location_id = 2
       /\ trucks[t].distance_traveled = 3
       /\ \E id \in Range(trucks[t].packages) :
            /\ my_hash_packages[id].loc_id = 1
            /\ \E other \in delivered : other > id /\ load_trip[other] = load_trip[id]

\* C7: return_to_hub runs on an empty manifest and leaves the truck at
\* location 0; every delivered package was delivered by the truck and in
\* the cycle that loaded it.
C7_StepReturn ==
  IsReturn =>
    /\ trucks[truck_list[cur]].packages = <<>>
    /\ trucks'[truck_list[cur]].location_id = 0
    /\ \A t \in TruckIds : trucks'[t].packages = <<>>
C7_SameCycle ==
  \A id \in delivered : deliver_trip[id] = load_trip[id]
C7_DeliveredBeforeReturn == [][C7_StepReturn /\ C7_SameCycle']_vars

\* a truck is back at the depot after a cycle that delivered something
C7_Witness ==
  \E t \in TruckIds :
    /\ trips[t] >= 1
    /\ trucks[t].location_id = 0
    /\ trucks[t].packages = <<>>
    /\ trucks[t].distance_traveled > 0

\* C8: the two pools are disjoint and duplicate free, an id is pending
\* exactly when it is not delivered, and pools and delivered ids together
\* are the whole id set.
C8_PoolsPartition ==
  /\ Range(priority_packages) \cap Range(non_priority_packages) = {}
  /\ NoDuplicates(priority_packages)
  /\ NoDuplicates(non_priority_packages)
  /\ delivered \cap Pending = {}
  /\ delivered \cup Pending = Ids

\* something is delivered while both pools still hold ids
C8_Witness ==
  /\ delivered # {}
  /\ priority_packages # <<>>
  /\ non_priority_packages # <<>>

\* C9: route_packages starts another pass while a pool is non-empty, and
\* when it returns both pools are empty, every package is delivered and
\* every truck is at the depot with an empty manifest.
C9_Step ==
  /\ (pc = "while" /\ Len(priority_packages) + Len(non_priority_packages) > 0)
       => pc' # "done"
  /\ pc' = "done" =>
       /\ priority_packages' = <<>>
       /\ non_priority_packages' = <<>>
       /\ delivered' = Ids
       /\ \A t \in TruckIds :
            trucks'[t].packages = <<>> /\ trucks'[t].location_id = 0
C9_TerminatesWhenPoolsEmpty == [][C9_Step]_vars

\* route_packages has returned after delivering packages of both pools
C9_Witness ==
  /\ pc = "done"
  /\ \E a \in delivered : IsPriority(my_hash_packages[a])
  /\ \E b \in delivered : ~IsPriority(my_hash_packages[b])

\* C10: the status printed for a package at a query time is Unavailable
\* exactly when query < available, In Depot exactly when
\* available <= query < pickup, En Route exactly when
\* pickup <= query < delivered, Delivered exactly when query >= delivered.
C10_StatusAsClaimed ==
  shown.label # "none" =>
    LET package == my_hash_packages[shown.id]
        query == shown.time
    IN /\ shown.label = UNAVAILABLE <=> query < package.time_available
       /\ shown.label = DEPOT <=>
            (package.time_available <= query /\ query < package.time_pickup)
       /\ shown.label = EN_ROUTE <=>
            (package.time_pickup <= query /\ query < package.time_delivered)
       /\ shown.label = DELIVERED <=> query >= package.time_delivered


\* the step is an iteration of a load_truck loop
IsLoading == pc \in {"load_pri", "load_non"}
\* the ids a step puts aboard truck t
NewlyAboard(t) == Range(trucks'[t].packages) \ Range(trucks[t].packages)

\* C11: a truck's odometer starts at 0 and every step adds to it exactly
\* the table distance of the leg travelled in the step: from the truck's
\* location to the delivered package's destination, or back to location 0.
C11_StepOdometer ==
  \A t \in TruckIds :
    LET moved == (IsDelivery \/ IsReturn) /\ t = truck_list[cur]
        leg == Distance(trucks[t].location_id, trucks'[t].location_id)
    IN /\ trucks'[t].distance_traveled =
            trucks[t].distance_traveled + (IF moved THEN leg ELSE 0)
       /\ ~moved => trucks'[t].location_id = trucks[t].location_id
       /\ (moved /\ IsReturn) => trucks'[t].location_id = 0
       /\ (moved /\ IsDelivery) =>
            \A id \in delivered' \ delivered :
              trucks'[t].location_id = my_hash_packages[id].loc_id
C11_OdometerIsSumOfLegs ==
  /\ \A t \in TruckIds : trucks[t].distance_traveled = 0
  /\ [][C11_StepOdometer]_vars

\* with depot-1 = 5, depot-2 = 3 and 1-2 = 4 a truck is back at the depot
\* after the legs 3, 4 and 5
C11_Witness ==
  /\ locations = SpecTable
  /\ \E t \in TruckIds :
       /\ trucks[t].distance_traveled = 12
       /\ trucks[t].location_id = 0
       /\ Cardinality({id \in delivered : deliver_trip[id][1] = t}) = 2

\* C12: a delivery step stores as the package's delivered timestamp the
\* truck's clock after the leg to the destination.
C12_StepStampAfterLeg ==
  IsDelivery =>
    \A id \in delivered' \ delivered :
      my_hash_packages'[id].time_delivered =
        trucks'[truck_list[cur]].truck_time
C12_DeliveredStampAfterAdvance == [][C12_StepStampAfterLeg]_vars

\* C13: every package a load step puts aboard a truck has an available
\* time no later than that truck's clock.
C13_StepLoadsAvailable ==
  \A t \in TruckIds : \A id \in NewlyAboard(t) :
    my_hash_packages[id].time_available <= trucks[t].truck_time
C13_LoadedOnlyWhenAvailable == [][C13_StepLoadsAvailable]_vars

\* C14: whenever a manifest is non-empty find_shortest_distance returns an
\* id that is aboard, and the delivery loop never fails.
C14_AlwaysYieldsAboard ==
  /\ pc # "crashed"
  /\ \A t \in TruckIds :
       trucks[t].packages # <<>> =>
         find_shortest_distance(t) \in Range(trucks[t].packages)

\* C16: a load step leaves the truck's clock unchanged and stamps every
\* package it puts aboard with that clock, so the packages aboard a truck
\* share one pickup timestamp.
C16_StepStamps ==
  IsLoading =>
    \A t \in TruckIds :
      /\ trucks'[t].truck_time = trucks[t].truck_time
      /\ \A id \in NewlyAboard(t) :
           my_hash_packages'[id].time_pickup = trucks[t].truck_time
C16_SharedPickup ==
  \A t \in TruckIds : \A a \in Range(trucks[t].packages) :
    \A b \in Range(trucks[t].packages) :
      my_hash_packages[a].time_pickup = my_hash_packages[b].time_pickup
C16_PickupIsClockOfPass == [][C16_StepStamps /\ C16_SharedPickup']_vars

\* a truck that has already travelled carries a priority and a
\* non-priority package loaded in one pass
C16_Witness ==
  \E t \in TruckIds :
    /\ trucks[t].truck_time > truck_start[t]
    /\ \E a \in Range(trucks[t].packages) : IsPriority(my_hash_packages[a])
    /\ \E b \in Range(trucks[t].packages) : ~IsPriority(my_hash_packages[b])

\* C17: a load step changes neither pool nor any truck's clock, odometer
\* or location; an id leaves the pools only in the delivery step that
\* delivers it, and the other ids keep their order.
C17_StepFrame ==
  /\ IsLoading =>
       /\ priority_packages' = priority_packages
       /\ non_priority_packages' = non_priority_packages
       /\ \A t \in TruckIds :
            /\ trucks'[t].truck_time = trucks[t].truck_time
            /\ trucks'[t].distance_traveled = trucks[t].distance_traveled
            /\ trucks'[t].location_id = trucks[t].location_id
  /\ LET gone == Pending \ Pending'
         kept(id) == id \notin gone
     IN /\ gone \subseteq delivered' \ delivered
        /\ gone # {} => pc = "drain"
        /\ priority_packages' = SelectSeq(priority_packages, kept)
        /\ non_priority_packages' = SelectSeq(non_priority_packages, kept)
C17_LoadLeavesPools == [][C17_StepFrame]_vars

\* after earlier deliveries a truck is loading and what it has loaded is
\* still in the pools
C17_Witness ==
  /\ IsLoading
  /\ delivered # {}
  /\ \E t \in TruckIds :
       /\ Len(trucks[t].packages) >= 2
       /\ Range(trucks[t].packages) \subseteq Pending

\* C18: only the truck being processed has packages aboard, no id is
\* aboard twice, and when a truck starts loading every package loaded
\* before is out of the pools.
C18_Sequential ==
  /\ \A t \in TruckIds :
       t # truck_list[cur] => trucks[t].packages = <<>>
  /\ \A t \in TruckIds : NoDuplicates(trucks[t].packages)
  /\ \A id \in Pending :
       load_trip[id] # NoTrip => id \in Range(trucks[truck_list[cur]].packages)
  /\ (pc = "load_pri" /\ idx = 1) =>
       \A t \in TruckIds : trucks[t].packages = <<>>

\* the second truck carries packages in a pass in which the first truck
\* has delivered
C18_Witness ==
  /\ cur = 2
  /\ trucks[truck_list[2]].packages # <<>>
  /\ \E id \in delivered :
       /\ deliver_trip[id][1] = truck_list[1]
       /\ trips[truck_list[1]] = deliver_trip[id][2] + 1
  /\ \A id \in delivered : deliver_trip[id][1] = truck_list[1]


\* C15: a pending package that no active truck can ever load (its required
\* truck is not in truck_list, or no allowed truck's clock ever reaches its
\* available time) stays in its pool and route_packages never returns.
C15_StuckNeverEnds ==
  LET ended == pc \in {"done", "shown", "query_failed"} IN
  /\ \A id \in Ids :
       my_hash_packages[id].req_truck \notin ({0} \cup TruckIds) =>
         id \in Pending /\ ~ended
  /\ ended =>
       \A id \in Ids : \E t \in TruckIds :
         /\ my_hash_packages[id].req_truck \in {0, t}
         /\ my_hash_packages[id].time_available <= trucks[t].truck_time

\* C19: the package id prompt of option 2 lets only 1..num_packages
\* through, so the lookup finds a record and the query never fails.
C19_PromptKeepsRange ==
  /\ pc # "query_failed"
  /\ shown.id \in Ids \cup {0}

\* `needle in hay`, letter by letter
Occurs(needle, hay) ==
  \E i \in 1..(Len(hay) + 1) :
    /\ i + Len(needle) - 1 <= Len(hay)
    /\ \A j \in 1..Len(needle) : hay[i + j - 1] = needle[j]
\* the rows of the location file whose address contains the package's
MatchingRows == {k \in 1..Len(addresses) : Occurs(p_address, addresses[k])}

\* C20 as stated: the resolved location id is that of the first location
\* whose address contains the package's address, -1 when none does.
C20_FirstMatch ==
  pc = "resolved" =>
    IF MatchingRows = {} THEN p_loc_id = -1
    ELSE \E k \in MatchingRows :
           /\ p_loc_id = k - 1
           /\ \A j \in MatchingRows : k <= j

\* C20 as amended: the resolved location id is that of the last location,
\* in location-list order, whose address contains the package's address,
\* -1 when none does.
C20_LastMatch ==
  pc = "resolved" =>
    IF MatchingRows = {} THEN p_loc_id = -1
    ELSE \E k \in MatchingRows :
           /\ p_loc_id = k - 1
           /\ \A j \in MatchingRows : j <= k

\* two locations with different addresses both contain the package's
\* non-empty address
C20_Witness ==
  /\ pc = "resolved"
  /\ p_address # <<>>
  /\ \E j \in MatchingRows : \E k \in MatchingRows :
       addresses[j] # addresses[k]


\* the ids a step appends to the manifest of truck t, in order
Appended(t) ==
  SubSeq(trucks'[t].packages, Len(trucks[t].packages) + 1,
         Len(trucks'[t].packages))

\* C22: a truck that delivered nothing in its turn, because it loaded
\* nothing, is unchanged by its return_to_hub, and in every step a truck's
\* clock advances by exactly the driving time of the distance it covers.
C22_StepIdle ==
  /\ \A t \in TruckIds :
       trucks'[t].truck_time =
         trucks[t].truck_time
           + ((trucks'[t].distance_traveled - trucks[t].distance_traveled)
                * 3600) \div rate
  /\ IsReturn =>
       LET t == truck_list[cur] IN
       (\A id \in Ids : load_trip[id] # <<t, trips[t]>>) =>
         trucks'[t] = trucks[t]
C22_IdleTruckUnchanged == [][C22_StepIdle]_vars

\* the first truck has ended a turn without loading while packages are
\* pending, and is as it started the day
C22_Witness ==
  /\ cur = 2
  /\ Pending # {}
  /\ \A id \in Ids : load_trip[id][1] # truck_list[1]
  /\ trucks[truck_list[1]].truck_time = truck_start[1]
  /\ trucks[truck_list[1]].distance_traveled = 0

\* C23: a manifest never holds an id twice; a step puts aboard only ids
\* that were never loaded before, each once, and a step takes from a
\* manifest only an id that was never delivered before, delivered by the
\* truck that loaded it.
C23_StepOnce ==
  /\ \A t \in TruckIds :
       /\ NoDuplicates(Appended(t))
       /\ \A id \in Range(Appended(t)) :
            /\ load_trip[id] = NoTrip
            /\ id \notin delivered
            /\ my_hash_packages'[id].time_pickup = trucks[t].truck_time
       /\ Len(trucks'[t].packages) < Len(trucks[t].packages) =>
            \E id \in Range(trucks[t].packages) :
              /\ trucks'[t].packages = ListRemove(trucks[t].packages, id)
              /\ id \notin delivered
              /\ deliver_trip[id] = NoTrip
              /\ load_trip[id][1] = t
              /\ \A other \in Ids \ {id} :
                   my_hash_packages'[other].time_delivered =
                     my_hash_packages[other].time_delivered
  /\ \A id \in Ids :
       (\A t \in TruckIds : id \notin Range(Appended(t))) =>
         my_hash_packages'[id].time_pickup = my_hash_packages[id].time_pickup
  /\ (\A t \in TruckIds :
        Len(trucks'[t].packages) >= Len(trucks[t].packages)) =>
       \A id \in Ids :
         my_hash_packages'[id].time_delivered =
           my_hash_packages[id].time_delivered
C23_NoDoubles ==
  \A t \in TruckIds : NoDuplicates(trucks[t].packages)
C23_LoadedAndDeliveredOnce == [][C23_StepOnce /\ C23_NoDoubles']_vars

\* a truck that has finished a delivering cycle is loading again, from
\* pools that no longer hold what it delivered
C23_Witness ==
  LET t == truck_list[cur] IN
  /\ IsLoading
  /\ trips[t] >= 1
  /\ trucks[t].packages # <<>>
  /\ \E id \in delivered : deliver_trip[id][1] = t

\* C21: when every package has group 0, names no truck or an active one,
\* is available by the start clock of every truck allowed to carry it, and
\* every distance of the table is below min_distance, route_packages
\* returns, with every package delivered.
C21_Premise ==
  /\ \A id \in Ids :
       LET package == my_hash_packages[id] IN
       /\ package.group = 0
       /\ package.req_truck \in {0} \cup TruckIds
       /\ \A t \in TruckIds :
            package.req_truck \in {0, t} =>
              package.time_available <= truck_start[t]
  /\ \A l \in 1..Len(locations) : \A m \in 1..Len(locations[l]) :
       locations[l][m] < min_distance
C21_Returned ==
  /\ pc = "done"
  /\ delivered = Ids
  /\ Pending = {}
C21_TerminatesAllDelivered == C21_Premise => <>C21_Returned

\* route_packages has returned from an input of the claim after a truck
\* went out twice
C21_Witness ==
  /\ C21_Premise
  /\ C21_Returned
  /\ \E t \in TruckIds : trips[t] >= 2

====
